---- MODULE Spec2Model ----
(***************************************************************************)
(* Model of the SEMS wallbox session client                                *)
(* (custom_components/sems-wallbox/sems_api.py, class SemsApi).            *)
(*                                                                         *)
(* The client owns one token (self._token).  Callers invoke                *)
(* test_authentication, getLoginToken, getData, change_status and          *)
(* set_charge_mode; every handler is split into the steps between which    *)
(* the shared token is read or written, or a network call is made.         *)
(* The server is the environment: every network call draws its outcome     *)
(* from a small set of responses.                                          *)
(***************************************************************************)
EXTENDS Integers, Sequences, FiniteSets, TLC

\* ---------------------------------------------------------------- bounds
MaxRetries == 2
NumTokens == 2
NumPayloads == 2
MaxPower == 1
NumStatus == 2
NumModes == 1
NumCallers == 2

\* ------------------------------------------------------------- constants
\* Python's None, as a value distinct from every token, payload and power.
None == -1
\* the static "token" header of _DefaultHeaders, used by the login request
DefaultHeaderToken == 0
\* the device serial handed to the client by the host
Serial == "sn"
\* the credentials given to the constructor
Username == "user"
Password == "pwd"

Callers == 1..NumCallers
Tokens == 1..NumTokens
Payloads == 1..NumPayloads
Budgets == (0 - 1)..MaxRetries
Powers == {None} \cup (0..MaxPower)
StatusValues == 1..NumStatus
Modes == 1..NumModes

\* every exception class the handlers can see is a subclass of Exception;
\* OutOfRetries derives from HomeAssistantError, itself an Exception
ExceptionSubclasses ==
    {"OutOfRetries", "RequestException", "HTTPError", "JSONDecodeError",
     "KeyError", "TypeError"}

VARIABLES
    token,        \* self._token: None or the token dict of the last stored login
    callers,      \* the callers that use this client instance
    op,           \* per caller: the operation in progress or last finished
    pc,           \* per caller: position inside the operation
    args,         \* per caller: arguments of the logical call, token held at its start
    stack,        \* per caller: frames of the (recursive) operation, innermost last
    loginResult,  \* per caller: value returned by getLoginToken, not yet stored
    response,     \* per caller: response of the status request, not yet decoded
    retval,       \* per caller: outcome travelling up the frames
    result,       \* per caller: outcome the caller observed for the last call
    trace,        \* per caller: network requests of the current logical call
    logs          \* per caller: log records of the current logical call

vars == <<token, callers, op, pc, args, stack, loginResult, response,
          retval, result, trace, logs>>

\* ------------------------------------------------------------- outcomes
NoOutcome == [kind |-> "none", value |-> None, exc |-> ""]
Returned(v) == [kind |-> "return", value |-> v, exc |-> ""]
Raised(e) == [kind |-> "raise", value |-> None, exc |-> e]

Resp(k, m, d, code) == [kind |-> k, msg |-> m, data |-> d, code |-> code]
NoResp == Resp("none", "", None, 0)

\* responses the login endpoint can produce (or fail to)
LoginResponses ==
    {Resp("ok", "", t, 200) : t \in Tokens}
      \cup {Resp("transport", "", None, 0),
            Resp("http_error", "", None, 500),
            Resp("malformed", "", None, 200)}

\* responses the status endpoint can produce (or fail to); a response that
\* is not a success carries no data or the first payload
StatusResponses ==
    {Resp("json", "success", d, 200) : d \in {None} \cup Payloads}
      \cup {Resp("json", "fail", d, 200) : d \in {None} \cup {p \in Payloads : p <= 1}}
      \cup {Resp("transport", "", None, 0),
            Resp("decode", "", None, 200),
            Resp("badshape", "", None, 200)}

\* responses of the two command endpoints
CommandResponses ==
    {Resp("http", "", None, 200), Resp("http", "", None, 500),
     Resp("transport", "", None, 0)}

Event(e, tok, budget, body, resp) ==
    [e |-> e, tok |-> tok, budget |-> budget, body |-> body, resp |-> resp]

LogRecord(level, site, exc) == [level |-> level, site |-> site, exc |-> exc]

Frame(renew, retries) == [renewToken |-> renew, maxTokenRetries |-> retries]

NoArgs ==
    [renewToken |-> FALSE, maxTokenRetries |-> 0, status |-> None,
     mode |-> None, chargePower |-> None, held |-> None]

Top(c) == stack[c][Len(stack[c])]

\* ------------------------------------------------------ pure functions
\* the exception getLoginToken's body raises for a login response
LoginException(resp) ==
    CASE resp.kind = "transport" -> "RequestException"
      [] resp.kind = "http_error" -> "HTTPError"
      [] resp.kind = "malformed" -> "KeyError"
      [] OTHER -> ""

\* a handler of getLoginToken that expects transport errors only
getLoginToken_except_TransportOnly(exc) == exc = "RequestException"

\* except Exception of getLoginToken
getLoginToken_except(exc) == exc \in ExceptionSubclasses

\* outcome of getLoginToken for a login response: the token dict, None when
\* its handler swallows the exception, the exception otherwise
getLoginToken(resp) ==
    IF resp.kind = "ok" THEN Returned(resp.data)
    ELSE IF getLoginToken_except(LoginException(resp)) THEN Returned(None)
    ELSE Raised(LoginException(resp))

\* the budget test that gives up one attempt early
BudgetExhausted_OffByOne(retries) == retries <= 1

\* the budget test that lets a budget of 0 through
BudgetExhausted_Negative(retries) == retries < 0

\* maxTokenRetries <= 0
BudgetExhausted(retries) == retries <= 0

\* the token test without its renewToken operand
NeedsToken_IgnoresRenew(tok, renew) == tok = None

\* a login made on every attempt, whatever is held
NeedsToken_Always(tok, renew) == TRUE

\* self._token is None or renewToken
NeedsToken(tok, renew) == tok = None \/ renew

\* the retry test without its test of the payload
NeedsRetry_MsgOnly(resp) == resp.msg # "success"

\* jsonResponse["msg"] != "success" or jsonResponse["data"] is None
NeedsRetry(resp) == resp.msg # "success" \/ resp.data = None

\* the retry that passes its own budget on unchanged
RetryBudget_Kept(retries) == retries

\* maxTokenRetries=maxTokenRetries - 1: the budget handed to the retry
RetryBudget(retries) == retries - 1

\* the retry made without "return": the frame falls off its end
RetryReturn_Dropped(inner) == None

\* return self.getData(...): the frame hands on what the inner call returned
RetryReturn(inner) == inner

\* truth value of a chargePower argument in "if chargePower:"
Truthy(x) == x # None /\ x # 0

\* the JSON body of the SetChargeMode request
set_charge_mode_data(sn, mode, chargePower) ==
    IF Truthy(chargePower)
    THEN [sn |-> sn, type |-> mode, charge_power |-> chargePower]
    ELSE [sn |-> sn, type |-> mode]

\* the JSON body of the power-control request
change_status_data(sn, status) == [sn |-> sn, status |-> ToString(status)]

\* the body of the status request
getData_data(sn) == [sn |-> sn]

\* the body of the login request
login_data(userName, password) == [account |-> userName, pwd |-> password]

\* a handler that names the exceptions it expects instead of Exception
change_status_except_Narrow(exc) == exc \in {"OutOfRetries", "KeyError"}

\* except Exception of the three operations
getData_except(exc) == exc \in ExceptionSubclasses
change_status_except(exc) == exc \in ExceptionSubclasses
set_charge_mode_except(exc) == exc \in ExceptionSubclasses

\* ----------------------------------------------------------------- Init
Init ==
    /\ token = None
    /\ callers = {1}
    /\ op = [c \in Callers |-> "none"]
    /\ pc = [c \in Callers |-> "idle"]
    /\ args = [c \in Callers |-> NoArgs]
    /\ stack = [c \in Callers |-> <<>>]
    /\ loginResult = [c \in Callers |-> None]
    /\ response = [c \in Callers |-> NoResp]
    /\ retval = [c \in Callers |-> NoOutcome]
    /\ result = [c \in Callers |-> NoOutcome]
    /\ trace = [c \in Callers |-> <<>>]
    /\ logs = [c \in Callers |-> {}]

\* ----------------------------------------------------------- call entry
\* a caller starts a new logical call: locals and observations are fresh
Begin(c, name, a, first) ==
    /\ c \in callers
    /\ pc[c] = "idle"
    /\ op' = [op EXCEPT ![c] = name]
    /\ pc' = [pc EXCEPT ![c] = first]
    /\ args' = [args EXCEPT ![c] = [a EXCEPT !.held = token]]
    /\ stack' = [stack EXCEPT ![c] = <<Frame(a.renewToken, a.maxTokenRetries)>>]
    /\ loginResult' = [loginResult EXCEPT ![c] = None]
    /\ response' = [response EXCEPT ![c] = NoResp]
    /\ retval' = [retval EXCEPT ![c] = NoOutcome]
    /\ result' = [result EXCEPT ![c] = NoOutcome]
    /\ trace' = [trace EXCEPT ![c] = <<>>]
    /\ logs' = [logs EXCEPT ![c] = {}]
    /\ UNCHANGED <<token, callers>>

\* the caller has taken the outcome of the finished call and is free to make
\* the next one; only the token outlives the call
Collect(c) ==
    /\ c \in callers
    /\ pc[c] = "done"
    /\ op' = [op EXCEPT ![c] = "none"]
    /\ pc' = [pc EXCEPT ![c] = "idle"]
    /\ args' = [args EXCEPT ![c] = NoArgs]
    /\ loginResult' = [loginResult EXCEPT ![c] = None]
    /\ result' = [result EXCEPT ![c] = NoOutcome]
    /\ trace' = [trace EXCEPT ![c] = <<>>]
    /\ logs' = [logs EXCEPT ![c] = {}]
    /\ UNCHANGED <<token, callers, stack, response, retval>>

Call_test_authentication(c) ==
    Begin(c, "test_authentication", NoArgs, "login")

Call_getLoginToken(c) ==
    Begin(c, "getLoginToken", NoArgs, "login")

Call_getData(c) ==
    \E renew \in BOOLEAN, retries \in Budgets :
        Begin(c, "getData",
              [NoArgs EXCEPT !.renewToken = renew, !.maxTokenRetries = retries],
              "check")

Call_change_status(c) ==
    \E status \in StatusValues, renew \in BOOLEAN, retries \in Budgets :
        Begin(c, "change_status",
              [NoArgs EXCEPT !.status = status, !.renewToken = renew,
                             !.maxTokenRetries = retries],
              "check")

Call_set_charge_mode(c) ==
    \E mode \in Modes, power \in Powers, renew \in BOOLEAN, retries \in Budgets :
        Begin(c, "set_charge_mode",
              [NoArgs EXCEPT !.mode = mode, !.chargePower = power,
                             !.renewToken = renew, !.maxTokenRetries = retries],
              "check")

\* ------------------------------------------------------------- helpers
AddLogs(c, recs) == logs' = [logs EXCEPT ![c] = @ \cup recs]
AddEvent(c, ev) == trace' = [trace EXCEPT ![c] = Append(@, ev)]

\* the call is over: the caller observes the outcome, the frames are gone
Finish(c, outcome) ==
    /\ pc' = [pc EXCEPT ![c] = "done"]
    /\ stack' = [stack EXCEPT ![c] = <<>>]
    /\ result' = [result EXCEPT ![c] = outcome]
    /\ retval' = [retval EXCEPT ![c] = NoOutcome]

\* outcome of a handler "except Exception: _LOGGER.error(...)" for an exception
Handled(catches, exc) == IF catches THEN Returned(None) ELSE Raised(exc)
HandlerLogs(catches, site, exc) ==
    IF catches THEN {LogRecord("error", site, exc)} ELSE {}

\* ------------------------------------------------------ getLoginToken
\* the login request and what getLoginToken makes of its response; the value
\* goes back to the operation that asked for it
getLoginToken_post(c) ==
    /\ c \in callers
    /\ pc[c] = "login"
    /\ \E resp \in LoginResponses :
         LET out == getLoginToken(resp)
             failed == resp.kind # "ok"
             swallowed == failed /\ out.kind = "return"
             lg == IF swallowed
                   THEN {LogRecord("error", "getLoginToken", LoginException(resp))}
                   ELSE {}
             retries == IF stack[c] = <<>> THEN 0 ELSE Top(c).maxTokenRetries
         IN /\ AddEvent(c, Event("login", DefaultHeaderToken, retries,
                                 login_data(Username, Password), resp))
            /\ CASE op[c] = "getLoginToken" ->
                      /\ Finish(c, out)
                      /\ AddLogs(c, lg)
                      /\ loginResult' = [loginResult EXCEPT ![c] = out.value]
                 [] op[c] = "test_authentication" /\ out.kind = "raise" ->
                      \* the handler concatenates a str and an exception
                      /\ Finish(c, Raised("TypeError"))
                      /\ AddLogs(c, lg)
                      /\ UNCHANGED loginResult
                 [] op[c] = "getData" /\ out.kind = "raise" ->
                      /\ pc' = [pc EXCEPT ![c] = "return"]
                      /\ retval' = [retval EXCEPT ![c] =
                                      Handled(getData_except(out.exc), out.exc)]
                      /\ AddLogs(c, HandlerLogs(getData_except(out.exc),
                                                "getData", out.exc))
                      /\ UNCHANGED <<stack, result, loginResult>>
                 [] op[c] = "change_status" /\ out.kind = "raise" ->
                      /\ Finish(c, Handled(change_status_except(out.exc), out.exc))
                      /\ AddLogs(c, HandlerLogs(change_status_except(out.exc),
                                                "change_status", out.exc))
                      /\ UNCHANGED loginResult
                 [] op[c] = "set_charge_mode" /\ out.kind = "raise" ->
                      /\ Finish(c, Handled(set_charge_mode_except(out.exc), out.exc))
                      /\ AddLogs(c, HandlerLogs(set_charge_mode_except(out.exc),
                                                "set_charge_mode", out.exc))
                      /\ UNCHANGED loginResult
                 [] OTHER ->
                      /\ pc' = [pc EXCEPT ![c] = "store"]
                      /\ loginResult' = [loginResult EXCEPT ![c] = out.value]
                      /\ AddLogs(c, lg)
                      /\ UNCHANGED <<stack, result, retval>>
    /\ UNCHANGED <<token, callers, op, args, response>>

\* -------------------------------------------------- test_authentication
\* self._token = <login result>; return self._token is not None
test_authentication_store(c) ==
    /\ c \in callers
    /\ op[c] = "test_authentication"
    /\ pc[c] = "store"
    /\ token' = loginResult[c]
    /\ Finish(c, Returned(loginResult[c] # None))
    /\ UNCHANGED <<callers, op, args, loginResult, response, trace, logs>>

\* ------------------------------------------------------------- getData
\* the budget check, then the test whether a token has to be fetched
getData_check(c) ==
    /\ c \in callers
    /\ op[c] = "getData"
    /\ pc[c] = "check"
    /\ IF BudgetExhausted(Top(c).maxTokenRetries)
       THEN /\ pc' = [pc EXCEPT ![c] = "return"]
            /\ retval' = [retval EXCEPT ![c] =
                            Handled(getData_except("OutOfRetries"), "OutOfRetries")]
            /\ AddLogs(c, {LogRecord("info", "getData", "")}
                            \cup HandlerLogs(getData_except("OutOfRetries"),
                                             "getData", "OutOfRetries"))
       ELSE /\ pc' = [pc EXCEPT ![c] =
                        IF NeedsToken(token, Top(c).renewToken)
                        THEN "login" ELSE "request"]
            /\ UNCHANGED <<retval, logs>>
    /\ UNCHANGED <<token, callers, op, args, stack, loginResult, response,
                   result, trace>>

\* the login made without keeping its result
getData_store_Discards(c) ==
    /\ c \in callers
    /\ op[c] = "getData"
    /\ pc[c] = "store"
    /\ pc' = [pc EXCEPT ![c] = "request"]
    /\ UNCHANGED <<token, callers, op, args, stack, loginResult, response,
                   retval, result, trace, logs>>

\* self._token = self.getLoginToken(...)
getData_store(c) ==
    /\ c \in callers
    /\ op[c] = "getData"
    /\ pc[c] = "store"
    /\ token' = loginResult[c]
    /\ pc' = [pc EXCEPT ![c] = "request"]
    /\ UNCHANGED <<callers, op, args, stack, loginResult, response, retval,
                   result, trace, logs>>

\* the status request, its token header taken from self._token
getData_post(c) ==
    /\ c \in callers
    /\ op[c] = "getData"
    /\ pc[c] = "request"
    /\ \E resp \in StatusResponses :
         /\ AddEvent(c, Event("status", token, Top(c).maxTokenRetries,
                              getData_data(Serial), resp))
         /\ IF resp.kind = "transport"
            THEN /\ pc' = [pc EXCEPT ![c] = "return"]
                 /\ retval' = [retval EXCEPT ![c] =
                                 Handled(getData_except("RequestException"),
                                         "RequestException")]
                 /\ AddLogs(c, HandlerLogs(getData_except("RequestException"),
                                           "getData", "RequestException"))
                 /\ UNCHANGED response
            ELSE /\ pc' = [pc EXCEPT ![c] = "decode"]
                 /\ response' = [response EXCEPT ![c] = resp]
                 /\ UNCHANGED <<retval, logs>>
    /\ UNCHANGED <<token, callers, op, args, stack, loginResult, result>>

\* the exception response.json() or the subscripts raise, "" when none
DecodeException(resp) ==
    CASE resp.kind = "decode" -> "JSONDecodeError"
      [] resp.kind = "badshape" -> "KeyError"
      [] OTHER -> ""

\* decode the response: retry with a new token, or return the payload
getData_decode(c) ==
    /\ c \in callers
    /\ op[c] = "getData"
    /\ pc[c] = "decode"
    /\ LET resp == response[c]
           exc == DecodeException(resp)
       IN IF exc # ""
          THEN /\ pc' = [pc EXCEPT ![c] = "return"]
               /\ retval' = [retval EXCEPT ![c] = Handled(getData_except(exc), exc)]
               /\ AddLogs(c, HandlerLogs(getData_except(exc), "getData", exc))
               /\ UNCHANGED stack
          ELSE IF NeedsRetry(resp)
          THEN /\ pc' = [pc EXCEPT ![c] = "check"]
               /\ stack' = [stack EXCEPT ![c] =
                              Append(@, Frame(TRUE, RetryBudget(Top(c).maxTokenRetries)))]
               /\ AddLogs(c, {LogRecord("debug", "getData", "")})
               /\ UNCHANGED retval
          ELSE /\ pc' = [pc EXCEPT ![c] = "return"]
               /\ retval' = [retval EXCEPT ![c] = Returned(resp.data)]
               /\ UNCHANGED <<stack, logs>>
    /\ response' = [response EXCEPT ![c] = NoResp]
    /\ UNCHANGED <<token, callers, op, args, loginResult, result, trace>>

\* a frame ends: the outermost one answers the caller, an inner one answers
\* the frame waiting in "return self.getData(...)"
getData_return(c) ==
    /\ c \in callers
    /\ op[c] = "getData"
    /\ pc[c] = "return"
    /\ IF Len(stack[c]) = 1
       THEN /\ Finish(c, retval[c])
            /\ UNCHANGED logs
       ELSE /\ stack' = [stack EXCEPT ![c] = SubSeq(@, 1, Len(@) - 1)]
            /\ IF retval[c].kind = "raise"
               THEN /\ retval' = [retval EXCEPT ![c] =
                                    Handled(getData_except(@.exc), @.exc)]
                    /\ AddLogs(c, HandlerLogs(getData_except(retval[c].exc),
                                              "getData", retval[c].exc))
               ELSE /\ retval' = [retval EXCEPT ![c] =
                                    Returned(RetryReturn(@.value))]
                    /\ UNCHANGED logs
            /\ UNCHANGED <<pc, result>>
    /\ UNCHANGED <<token, callers, op, args, loginResult, response, trace>>

\* ------------------------------------- change_status / set_charge_mode
\* the preamble both commands share with getData: budget check, then the
\* test whether a token has to be fetched
Command_check(c, name, catches) ==
    /\ c \in callers
    /\ op[c] = name
    /\ pc[c] = "check"
    /\ IF BudgetExhausted(Top(c).maxTokenRetries)
       THEN /\ Finish(c, Handled(catches, "OutOfRetries"))
            /\ AddLogs(c, {LogRecord("info", name, "")}
                            \cup HandlerLogs(catches, name, "OutOfRetries"))
       ELSE /\ pc' = [pc EXCEPT ![c] =
                        IF NeedsToken(token, Top(c).renewToken)
                        THEN "login" ELSE "request"]
            /\ UNCHANGED <<stack, result, retval, logs>>
    /\ UNCHANGED <<token, callers, op, args, loginResult, response, trace>>

\* self._token = self.getLoginToken(...)
Command_store(c, name) ==
    /\ c \in callers
    /\ op[c] = name
    /\ pc[c] = "store"
    /\ token' = loginResult[c]
    /\ pc' = [pc EXCEPT ![c] = "request"]
    /\ UNCHANGED <<callers, op, args, stack, loginResult, response, retval,
                   result, trace, logs>>

\* the command request that does what its log message says on a response
\* other than 200: it tries again with a new token and one retry less
Command_post_Retries(c, name, data, catches, level) ==
    /\ c \in callers
    /\ op[c] = name
    /\ pc[c] = "request"
    /\ \E resp \in CommandResponses :
         /\ AddEvent(c, Event("command", token, Top(c).maxTokenRetries, data, resp))
         /\ IF resp.kind = "transport"
            THEN /\ Finish(c, Handled(catches, "RequestException"))
                 /\ AddLogs(c, HandlerLogs(catches, name, "RequestException"))
            ELSE IF resp.code # 200
            THEN /\ pc' = [pc EXCEPT ![c] = "check"]
                 /\ stack' = [stack EXCEPT ![c] =
                                <<Frame(TRUE, Top(c).maxTokenRetries - 1)>>]
                 /\ AddLogs(c, {LogRecord(level, name, "")})
                 /\ UNCHANGED <<result, retval>>
            ELSE /\ Finish(c, Returned(None))
                 /\ UNCHANGED logs
    /\ UNCHANGED <<token, callers, op, args, loginResult, response>>

\* the command request, its token header taken from self._token; a response
\* other than 200 is logged at the given level, and the call returns
Command_post(c, name, data, catches, level) ==
    /\ c \in callers
    /\ op[c] = name
    /\ pc[c] = "request"
    /\ \E resp \in CommandResponses :
         /\ AddEvent(c, Event("command", token, Top(c).maxTokenRetries, data, resp))
         /\ IF resp.kind = "transport"
            THEN /\ Finish(c, Handled(catches, "RequestException"))
                 /\ AddLogs(c, HandlerLogs(catches, name, "RequestException"))
            ELSE IF resp.code # 200
            THEN /\ Finish(c, Returned(None))
                 /\ AddLogs(c, {LogRecord(level, name, "")})
            ELSE /\ Finish(c, Returned(None))
                 /\ UNCHANGED logs
    /\ UNCHANGED <<token, callers, op, args, loginResult, response>>

change_status_check(c) ==
    Command_check(c, "change_status", change_status_except("OutOfRetries"))

change_status_store(c) == Command_store(c, "change_status")

change_status_post(c) ==
    Command_post(c, "change_status",
                 change_status_data(Serial, args[c].status),
                 change_status_except("RequestException"), "warning")

set_charge_mode_check(c) ==
    Command_check(c, "set_charge_mode", set_charge_mode_except("OutOfRetries"))

set_charge_mode_store(c) == Command_store(c, "set_charge_mode")

set_charge_mode_post(c) ==
    Command_post(c, "set_charge_mode",
                 set_charge_mode_data(Serial, args[c].mode, args[c].chargePower),
                 set_charge_mode_except("RequestException"), "debug")

\* ----------------------------------------------------------------- Next
\* the steps of a call that is under way: the code of the client running
Run(c) ==
    \/ getLoginToken_post(c)
    \/ test_authentication_store(c)
    \/ getData_check(c)
    \/ getData_store(c)
    \/ getData_post(c)
    \/ getData_decode(c)
    \/ getData_return(c)
    \/ change_status_check(c)
    \/ change_status_store(c)
    \/ change_status_post(c)
    \/ set_charge_mode_check(c)
    \/ set_charge_mode_store(c)
    \/ set_charge_mode_post(c)

Next ==
    \E c \in Callers :
        \/ Collect(c)
        \/ Call_test_authentication(c)
        \/ Call_getLoginToken(c)
        \/ Call_getData(c)
        \/ Call_change_status(c)
        \/ Call_set_charge_mode(c)
        \/ Run(c)

Spec == Init /\ [][Next]_vars

\* --------------------------------------------------- concurrent callers
\* two callers share the client: the poller that fetches the status and a
\* user action that sends a command, each in its own thread
Poller == CHOOSE c \in Callers : \A d \in Callers : c <= d
User == Poller + 1

InitConc ==
    /\ token = None
    /\ callers = {Poller, User}
    /\ op = [c \in Callers |-> "none"]
    /\ pc = [c \in Callers |-> "idle"]
    /\ args = [c \in Callers |-> NoArgs]
    /\ stack = [c \in Callers |-> <<>>]
    /\ loginResult = [c \in Callers |-> None]
    /\ response = [c \in Callers |-> NoResp]
    /\ retval = [c \in Callers |-> NoOutcome]
    /\ result = [c \in Callers |-> NoOutcome]
    /\ trace = [c \in Callers |-> <<>>]
    /\ logs = [c \in Callers |-> {}]

\* the budget change_status gets when the caller passes none
DefaultRetries == 2

\* the poller is at the last retry of a poll, the call the code makes after
\* a rejected answer with one attempt left: getData(True, 1)
Poll_getData(c) ==
    /\ c = Poller
    /\ Begin(c, "getData",
             [NoArgs EXCEPT !.renewToken = TRUE,
                            !.maxTokenRetries = 1],
             "check")

\* the user action calls change_status with its defaults, renewToken=False
\* and maxTokenRetries=2, and set_charge_mode with the same arguments (a
\* command never retries: every positive budget behaves alike)

User_change_status(c) ==
    \E status \in StatusValues :
        c = User /\ Begin(c, "change_status",
              [NoArgs EXCEPT !.status = status, !.renewToken = FALSE,
                             !.maxTokenRetries = DefaultRetries],
              "check")

User_set_charge_mode(c) ==
    \E mode \in Modes, power \in Powers :
        c = User /\ Begin(c, "set_charge_mode",
              [NoArgs EXCEPT !.mode = mode, !.chargePower = power,
                             !.renewToken = FALSE,
                             !.maxTokenRetries = DefaultRetries],
              "check")

\* the steps of the three operations, interleaved freely: the client holds
\* no lock, so a thread can be preempted between any two of them
RunConc(c) ==
    \/ getLoginToken_post(c)
    \/ getData_check(c)
    \/ getData_store(c)
    \/ getData_post(c)
    \/ getData_decode(c)
    \/ getData_return(c)
    \/ change_status_check(c)
    \/ change_status_store(c)
    \/ change_status_post(c)
    \/ set_charge_mode_check(c)
    \/ set_charge_mode_store(c)
    \/ set_charge_mode_post(c)

NextConc ==
    \E c \in Callers :
        \/ Collect(c)
        \/ Poll_getData(c)
        \/ User_change_status(c)
        \/ User_set_charge_mode(c)
        \/ RunConc(c)

ConcSpec == InitConc /\ [][NextConc]_vars

\* ------------------------------------------------------------ typing
TypeOK ==
    /\ token \in {None} \cup Tokens
    /\ callers \subseteq Callers
    /\ \A c \in Callers :
         /\ op[c] \in {"none", "test_authentication", "getLoginToken", "getData",
                       "change_status", "set_charge_mode"}
         /\ pc[c] \in {"idle", "done", "check", "login", "store", "request", "decode", "return"}
         /\ Len(stack[c]) <= MaxRetries + 1
         /\ Len(trace[c]) <= 2 * MaxRetries
         /\ loginResult[c] \in {None} \cup Tokens
         /\ result[c].kind \in {"none", "return", "raise"}

\* ------------------------------------------- observations on one call
\* the call of the named operation is over and the caller has its outcome
Done(c, name) == op[c] = name /\ pc[c] = "done"

EventsOf(c, kind) == {i \in DOMAIN trace[c] : trace[c][i].e = kind}
Statuses(c) == EventsOf(c, "status")
Logins(c) == EventsOf(c, "login")
Commands(c) == EventsOf(c, "command")

\* a status response that carries msg = "success" and a payload
IsSuccess(resp) == resp.kind = "json" /\ resp.msg = "success" /\ resp.data # None
\* a decoded status response whose msg is not "success"
IsRejected(resp) == resp.kind = "json" /\ resp.msg # "success"

\* the call ran into the exhausted budget (the record logged before the raise)
Exhausted(c, name) == LogRecord("info", name, "") \in logs[c]

\* the call ended on a transport or decode failure of its last request
BrokenRequest(c) ==
    /\ trace[c] # <<>>
    /\ trace[c][Len(trace[c])].e \in {"status", "command"}
    /\ trace[c][Len(trace[c])].resp.kind \in {"transport", "decode"}

\* exactly one login lies between event i and the request before it
OneLoginBefore(c, i) ==
    /\ i > 1
    /\ trace[c][i - 1].e = "login"
    /\ i > 2 => trace[c][i - 2].e # "login"

\* --------------------------------------------------------------- claims
\* C1: when every status response of a getData call with budget N carries
\* msg != "success", the call makes exactly N status requests, each preceded
\* by exactly one login, and ends by raising OutOfRetries to its caller.
C1_ExhaustsThenRaises ==
    \A c \in Callers :
        ( /\ Done(c, "getData")
          /\ args[c].maxTokenRetries >= 1
          /\ \A i \in Statuses(c) : IsRejected(trace[c][i].resp) )
        => /\ Cardinality(Statuses(c)) = args[c].maxTokenRetries
           /\ \A i \in Statuses(c) : OneLoginBefore(c, i)
           /\ result[c] = Raised("OutOfRetries")

\* C2: a getData call with a budget <= 0 raises OutOfRetries to its caller
\* and makes no network request, login or status.
C2_ZeroBudgetRaises ==
    \A c \in Callers :
        (Done(c, "getData") /\ args[c].maxTokenRetries <= 0)
        => /\ trace[c] = <<>>
           /\ result[c].kind = "raise"
           /\ result[c].exc = "OutOfRetries"

\* C3: the caller of getData sees an exhausted budget as a raised
\* OutOfRetries and a transport or decode error as a None result, so the two
\* outcomes differ.
C3_ExhaustionDistinct ==
    \A c \in Callers :
        Done(c, "getData")
        => /\ Exhausted(c, "getData")
                => result[c] = Raised("OutOfRetries") /\ result[c] # Returned(None)
           /\ (BrokenRequest(c) /\ ~Exhausted(c, "getData"))
                => result[c] = Returned(None)

\* C4: a failed login leaves the held token as it was: neither the login
\* step nor the step that stores its result changes the token when the
\* login failed.
C4_FailedLoginKeepsToken ==
    [][\A c \in Callers :
          /\ (pc[c] = "login" /\ pc'[c] # "login") => token' = token
          /\ (pc[c] = "store" /\ pc'[c] # "store" /\ loginResult[c] = None)
                => token' = token]_vars

\* C5: every status or command request is sent while a token is held and
\* while the budget of the frame that sends it is not exhausted.
C5_RequestsNeedTokenAndBudget ==
    \A c \in Callers :
        \A i \in Statuses(c) \cup Commands(c) :
            /\ trace[c][i].tok # None
            /\ trace[c][i].budget > 0

\* C6: a failed login inside getData ends the call: nothing is requested
\* after it, and the caller gets the error.
C6_FailedLoginEndsCall ==
    \A c \in Callers :
        op[c] = "getData"
        => \A i \in Logins(c) :
              trace[c][i].resp.kind # "ok"
              => /\ i = Len(trace[c])
                 /\ Done(c, "getData") => result[c].kind = "raise"

\* C7: a status response with msg = "success" and a payload, on an attempt
\* within the budget, is the last request of the getData call, and the call
\* returns exactly that payload.
C7_SuccessReturnsPayload ==
    \A c \in Callers :
        op[c] = "getData"
        => \A i \in Statuses(c) :
              IsSuccess(trace[c][i].resp)
              => /\ i = Len(trace[c])
                 /\ Cardinality(Statuses(c)) <= args[c].maxTokenRetries
                 /\ pc[c] \in {"decode", "return", "done"}
                 /\ pc[c] = "return" => retval[c] = Returned(trace[c][i].resp.data)
                 /\ pc[c] = "done" => result[c] = Returned(trace[c][i].resp.data)

C7_Witness ==
    \E c \in Callers :
        /\ Done(c, "getData")
        /\ Cardinality(Statuses(c)) = 2
        /\ IsSuccess(trace[c][Len(trace[c])].resp)
        /\ result[c] = Returned(trace[c][Len(trace[c])].resp.data)

\* the conditions of C8: no token at the start, every login succeeded, every
\* status response decoded
C8_Scenario(c) ==
    /\ Done(c, "getData")
    /\ args[c].held = None
    /\ args[c].maxTokenRetries >= 1
    /\ \A i \in Logins(c) : trace[c][i].resp.kind = "ok"
    /\ \A i \in Statuses(c) : trace[c][i].resp.kind = "json"

\* C8: from no token and with every login succeeding, a getData call whose
\* status responses fail until attempt N and succeed on attempt N makes
\* exactly N status requests and N logins, alternating, and returns the Nth
\* payload; it stops earlier only when the budget ends before a success.
C8_NAttemptsNLogins ==
    \A c \in Callers :
        C8_Scenario(c)
        => LET n == Cardinality(Statuses(c))
               last == trace[c][Len(trace[c])]
           IN /\ n >= 1
              /\ Len(trace[c]) = 2 * n
              /\ Cardinality(Logins(c)) = n
              /\ \A i \in Statuses(c) : OneLoginBefore(c, i)
              /\ \A i \in Statuses(c) :
                    i < Len(trace[c]) => ~IsSuccess(trace[c][i].resp)
              /\ IF IsSuccess(last.resp)
                 THEN result[c] = Returned(last.resp.data)
                 ELSE n = args[c].maxTokenRetries

C8_Witness ==
    \E c \in Callers :
        /\ C8_Scenario(c)
        /\ Cardinality(Statuses(c)) = 2
        /\ Cardinality(Logins(c)) = 2
        /\ trace[c][2].resp.msg = "fail"
        /\ IsSuccess(trace[c][4].resp)
        /\ result[c] = Returned(trace[c][4].resp.data)

\* C9: the body of the SetChargeMode request has no charge_power field when
\* chargePower is None, and has charge_power equal to the argument for every
\* other value, 0 included.
C9_ChargePowerVerbatim ==
    \A c \in Callers :
        op[c] = "set_charge_mode"
        => \A i \in Commands(c) :
              LET body == trace[c][i].body
                  power == args[c].chargePower
              IN IF power = None
                 THEN "charge_power" \notin DOMAIN body
                 ELSE /\ "charge_power" \in DOMAIN body
                      /\ body.charge_power = power

\* a transport failure hit the login or the command request of the call
TransportFailure(c) ==
    \E i \in Logins(c) \cup Commands(c) : trace[c][i].resp.kind = "transport"

\* C10: change_status and set_charge_mode never raise to their caller; after
\* a transport failure of the login or of the command request the call has
\* returned normally and an error record was logged.
C10_CommandsNeverRaise ==
    \A c \in Callers :
        op[c] \in {"change_status", "set_charge_mode"}
        => /\ result[c].kind # "raise"
           /\ (pc[c] = "done" /\ TransportFailure(c))
                => /\ result[c] = Returned(None)
                   /\ \E r \in logs[c] : r.level = "error"

C10_Witness ==
    \E c \in Callers :
        /\ Done(c, "change_status")
        /\ Commands(c) # {}
        /\ trace[c][Len(trace[c])].resp.kind = "transport"
        /\ \E i \in Logins(c) : trace[c][i].resp.kind = "transport"
        /\ result[c] = Returned(None)

\* the login a caller made last, when nothing was sent since
FreshLogin(c) ==
    /\ trace[c] # <<>>
    /\ trace[c][Len(trace[c])].e = "login"
    /\ trace[c][Len(trace[c])].resp.kind = "ok"

\* C11: access to the stored token and the login/retry sequence is
\* serialized across concurrent calls: a call that has just re-authenticated
\* and is about to send its request finds in the client the token its own
\* login returned, never the token another call stored in between.
C11_TokenAccessSerialized ==
    \A c \in callers :
        (pc[c] = "request" /\ FreshLogin(c))
            => token = trace[c][Len(trace[c])].resp.data

\* C12: test_authentication never raises: it makes one login and returns
\* true exactly when that login succeeded, false for a transport error, a
\* non-2xx response and a malformed body alike.
C12_TestAuthenticationIsBoolean ==
    \A c \in Callers :
        op[c] = "test_authentication"
        => /\ result[c].kind # "raise"
           /\ Len(trace[c]) <= 1
           /\ pc[c] = "done"
                => /\ Len(trace[c]) = 1
                   /\ trace[c][1].e = "login"
                   /\ result[c].kind = "return"
                   /\ result[c].value = (trace[c][1].resp.kind = "ok")

C12_Witness ==
    \E c \in Callers :
        /\ Done(c, "test_authentication")
        /\ trace[c][1].resp.kind = "http_error"
        /\ result[c].kind = "return"
        /\ result[c].value = FALSE

\* the three operations that acquire a token before their request
TokenUsers == {"getData", "change_status", "set_charge_mode"}

\* the token held and the renew flag at the start of the attempt that sent
\* request i: those of the call for the first attempt; a retry always
\* asks for a new token
AttemptRenews(c, i) ==
    IF trace[c][i].budget = args[c].maxTokenRetries
    THEN args[c].held = None \/ args[c].renewToken
    ELSE TRUE

\* C13: an attempt of getData, change_status or set_charge_mode logs in
\* exactly when no token is held or a new token is asked for; a call made
\* with a held token and no renewal sends its first request with that token
\* and without a login.
C13_LoginIffNeeded ==
    \A c \in Callers :
        op[c] \in TokenUsers
        => /\ \A i \in Statuses(c) \cup Commands(c) :
                IF AttemptRenews(c, i)
                THEN OneLoginBefore(c, i)
                ELSE i = 1 /\ trace[c][i].tok = args[c].held
           /\ \A i \in Logins(c) :
                /\ i > 1 => trace[c][i - 1].e # "login"
                /\ (trace[c][i].budget = args[c].maxTokenRetries)
                        => (i = 1 /\ (args[c].held = None \/ args[c].renewToken))

C13_Witness ==
    \E c \in Callers :
        /\ Done(c, "getData")
        /\ args[c].held # None
        /\ ~args[c].renewToken
        /\ Len(trace[c]) = 3
        /\ trace[c][1].e = "status"
        /\ trace[c][1].tok = args[c].held
        /\ trace[c][2].e = "login"
        /\ trace[c][3].e = "status"

\* a status response with msg = "success" and no payload
IsEmptySuccess(resp) == resp.kind = "json" /\ resp.msg = "success" /\ resp.data = None

\* C14: a status response with msg = "success" and a null payload is not
\* returned: decoding it starts a retry with renewToken set and the budget
\* one lower, and nothing is handed back at that step.
C14_EmptySuccessRetries ==
    [][\A c \in Callers :
          ( /\ op[c] = "getData"
            /\ pc[c] = "decode"
            /\ pc'[c] # "decode"
            /\ IsEmptySuccess(response[c]) )
          => /\ pc'[c] = "check"
             /\ stack'[c] = Append(stack[c], Frame(TRUE, Top(c).maxTokenRetries - 1))
             /\ retval'[c] = NoOutcome
             /\ result'[c] = NoOutcome]_vars

C14_Witness ==
    \E c \in Callers :
        /\ op[c] = "getData"
        /\ pc[c] = "check"
        /\ Len(stack[c]) = 2
        /\ IsEmptySuccess(trace[c][Len(trace[c])].resp)
        /\ Top(c) = Frame(TRUE, args[c].maxTokenRetries - 1)

\* the two command operations
CommandOps == {"change_status", "set_charge_mode"}

\* C15: an exhausted budget is not a terminal state: detecting it leaves the
\* token as the last request of the call used it (as the call found it when
\* nothing was sent), the budget of a call is the one its caller gave, every
\* finished getData call with a positive budget has sent a status request,
\* and an idle caller can always start the next getData call.
C15_ExhaustionNotTerminal ==
    \A c \in callers :
        /\ (op[c] = "getData" /\ Exhausted(c, "getData"))
             => /\ pc[c] \in {"return", "done"}
                /\ IF trace[c] = <<>>
                   THEN token = args[c].held
                   ELSE /\ trace[c][Len(trace[c])].e = "status"
                        /\ token = trace[c][Len(trace[c])].tok
        /\ (Done(c, "getData") /\ args[c].maxTokenRetries >= 1)
             => /\ Statuses(c) # {}
                /\ \A i \in Statuses(c) :
                      (\A j \in Statuses(c) : i <= j)
                      => trace[c][i].budget = args[c].maxTokenRetries
        /\ pc[c] = "done" => ENABLED Collect(c)
        /\ pc[c] = "idle" => ENABLED Call_getData(c)

C15_Witness ==
    \E c \in Callers :
        /\ Done(c, "getData")
        /\ Exhausted(c, "getData")
        /\ args[c].maxTokenRetries = 2
        /\ args[c].held # None
        /\ Cardinality(Statuses(c)) = 2
        /\ token # None
        /\ token = trace[c][Len(trace[c])].tok

\* C16: change_status and set_charge_mode called with a budget <= 0 make no
\* login and no command request, leave the token alone and return None to
\* their caller without raising.
C16_CommandZeroBudgetSilent ==
    \A c \in Callers :
        (op[c] \in CommandOps /\ args[c].maxTokenRetries <= 0)
        => /\ trace[c] = <<>>
           /\ token = args[c].held
           /\ pc[c] \in {"check", "done"}
           /\ result[c].kind # "raise"
           /\ pc[c] = "done" => result[c] = Returned(None)

C16_Witness ==
    \E c \in Callers :
        /\ Done(c, "set_charge_mode")
        /\ args[c].maxTokenRetries = 0
        /\ args[c].held # None
        /\ token = args[c].held
        /\ trace[c] = <<>>
        /\ result[c] = Returned(None)

BudgetsDecrease(c) ==
    \A k \in 1..Len(stack[c]) :
        stack[c][k].maxTokenRetries = args[c].maxTokenRetries - (k - 1)

\* at most n requests of each kind, n the budget of the call (none for n <= 0)
WithinBudget(c) ==
    LET n == IF args[c].maxTokenRetries > 0 THEN args[c].maxTokenRetries ELSE 0
    IN /\ Cardinality(Statuses(c)) <= n
       /\ Cardinality(Logins(c)) <= n
       /\ Len(stack[c]) <= n + 1

\* how far a position of getData is from the end of its frame
Rank(p) ==
    CASE p = "check" -> 5
      [] p = "login" -> 4
      [] p = "store" -> 3
      [] p = "request" -> 2
      [] p = "decode" -> 1
      [] OTHER -> 0

\* a natural number that measures what is left of a getData call: nothing
\* when it is over, the frames still to leave while it returns, and before
\* that the budget of the innermost frame, then its position
Measure(c) ==
    CASE pc[c] \in {"idle", "done"} -> 0
      [] pc[c] = "return" -> Len(stack[c])
      [] OTHER -> 6 * (Top(c).maxTokenRetries + 1) + Rank(pc[c]) + Len(stack[c]) + 1

\* C18: every getData call ends, whatever the budget and the responses: the
\* budget falls by one with each retry, the call makes at most N status
\* requests and at most N logins, a call under way can always take its next
\* step, and every step of the call lowers a measure that cannot fall below 0.
C18_GetDataTerminates ==
    /\ [](\A c \in Callers :
             op[c] = "getData"
             => /\ BudgetsDecrease(c)
                /\ WithinBudget(c)
                /\ Measure(c) >= 0
                /\ pc[c] \notin {"idle", "done"} => ENABLED Run(c))
    /\ [][\A c \in Callers :
             ( /\ op[c] = "getData"
               /\ pc[c] \notin {"idle", "done"}
               /\ <<pc[c], stack[c]>>' # <<pc[c], stack[c]>> )
             => Measure(c)' < Measure(c)]_vars

C18_Witness ==
    \E c \in Callers :
        /\ Done(c, "getData")
        /\ args[c].maxTokenRetries = 2
        /\ Cardinality(Statuses(c)) = 2
        /\ Cardinality(Logins(c)) = 2
        /\ Exhausted(c, "getData")

\* the token a login leaves with the client: the one in its response, None
\* when it failed
TokenAfter(ev) == IF ev.resp.kind = "ok" THEN ev.resp.data ELSE None

\* C19: every status or command request carries the token the client holds
\* when it is sent: the token of the login made for that attempt, or the
\* token held at the start of the call when no login was made; the request
\* of a retry that obtained a new token carries that token and not the one
\* just rejected; the token stays the one sent until the next login.
C19_RequestCarriesCurrentToken ==
    \A c \in Callers :
        op[c] \in TokenUsers
        => /\ \A i \in Statuses(c) \cup Commands(c) :
                /\ IF i = 1
                   THEN trace[c][i].tok = args[c].held
                   ELSE /\ trace[c][i - 1].e = "login"
                        /\ trace[c][i].tok = TokenAfter(trace[c][i - 1])
                /\ ( /\ i >= 3
                     /\ trace[c][i - 1].resp.kind = "ok"
                     /\ trace[c][i - 1].resp.data # trace[c][i - 2].tok )
                   => trace[c][i].tok # trace[c][i - 2].tok
                /\ i = Len(trace[c]) => token = trace[c][i].tok
           /\ (pc[c] = "request" /\ trace[c] # <<>>)
                => token = TokenAfter(trace[c][Len(trace[c])])

C19_Witness ==
    \E c \in Callers :
        /\ Done(c, "getData")
        /\ args[c].held # None
        /\ Len(trace[c]) = 3
        /\ trace[c][1].e = "status"
        /\ trace[c][1].tok = args[c].held
        /\ trace[c][2].e = "login"
        /\ trace[c][2].resp.kind = "ok"
        /\ trace[c][2].resp.data # args[c].held
        /\ trace[c][3].e = "status"
        /\ trace[c][3].tok = trace[c][2].resp.data
        /\ token = trace[c][3].tok

====
